---------------------------- MODULE Spec2Model ----------------------------
(***************************************************************************)
(* The logical clocks of elliottyoon/clock as a TLA+ model: the interval   *)
(* tree clock (src/src/interval_tree_clock.rs) and the vector clock        *)
(* (src/src/vector_clock.rs).  Trees are records tagged by the field t.  A *)
(* Rust panic (assert_ne!, unreachable!, arithmetic overflow in a build    *)
(* with overflow checks) is the value Panic(msg), which every caller hands *)
(* on unchanged, as unwinding does.                                        *)
(***************************************************************************)
EXTENDS Integers, Sequences, FiniteSets, TLC

(***************************************************************************)
(* Bounds of the model.                                                    *)
(***************************************************************************)
\* Largest value a drawn event tree takes anywhere on [0,1).
MaxN == 2
\* Most stamps (clocks and messages in flight) alive at once in an execution.
MaxClocks == 4
\* Most events recorded in an execution.
MaxEvents == 3
\* Deepest id tree an execution may fork.
MaxForkDepth == 1
\* Most operations in an execution.
MaxSteps == 4
\* Processes that hold a vector clock; their keys are 1..MaxProcs.
MaxProcs == 3
\* Largest entry of a drawn vector clock.
MaxCount == 2
\* Largest physical time, in seconds, that the NTP client reads.
MaxPT == 1

(***************************************************************************)
(* Panics.                                                                 *)
(***************************************************************************)
Panic(msg) == [panic |-> msg]

PanicMessages ==
    { "assertion failed: id != Empty", "unreachable: Id::sum",
      "unreachable: grow Full", "unreachable: grow Empty",
      "attempt to subtract with overflow", "attempt to add with overflow",
      "called Option::unwrap() on a None value",
      "called Result::unwrap() on an Err value" }

IsPanic(v) == v \in { Panic(m) : m \in PanicMessages }

Max2(a, b) == IF a > b THEN a ELSE b

Min2(a, b) == IF a < b THEN a ELSE b

(***************************************************************************)
(* enum Id                                                                 *)
(***************************************************************************)
Empty == [t |-> "Empty"]

Full == [t |-> "Full"]

Id_Split(l, r) == [t |-> "Split", l |-> l, r |-> r]

RECURSIVE Id_norm_deep(_)
\* Id::norm applied again at every level of the tree.
Id_norm_deep(i) ==
    IF i.t = "Split"
    THEN LET l == Id_norm_deep(i.l)
             r == Id_norm_deep(i.r)
         IN  IF l = Empty /\ r = Empty THEN Empty
             ELSE IF l = Full /\ r = Full THEN Full
             ELSE Id_Split(l, r)
    ELSE i

\* Id::norm: one level only, as the code.
Id_norm(i) ==
    IF i.t = "Split"
    THEN IF i.l = Empty /\ i.r = Empty THEN Empty
         ELSE IF i.l = Full /\ i.r = Full THEN Full
         ELSE i
    ELSE i

RECURSIVE Id_split(_)
\* Id::split whose Full arm leaves the whole interval to the second id.
Id_split_overlapping(i) ==
    IF i = Empty THEN <<Empty, Empty>>
    ELSE IF i = Full THEN <<Id_Split(Full, Empty), Full>>
    ELSE IF i.l = Empty
         THEN LET p == Id_split(i.r)
              IN  <<Id_Split(Empty, p[1]), Id_Split(Empty, p[2])>>
         ELSE IF i.r = Empty
              THEN LET p == Id_split(i.l)
                   IN  <<Id_Split(p[1], Empty), Id_Split(p[2], Empty)>>
              ELSE <<Id_Split(i.l, Empty), Id_Split(Empty, i.r)>>

\* Id::split whose arm for an Empty left child builds the halves on the
\* left.
Id_split_mirrors(i) ==
    IF i = Empty THEN <<Empty, Empty>>
    ELSE IF i = Full THEN <<Id_Split(Full, Empty), Id_Split(Empty, Full)>>
    ELSE IF i.l = Empty
         THEN LET p == Id_split(i.r)
              IN  <<Id_Split(p[1], Empty), Id_Split(p[2], Empty)>>
         ELSE IF i.r = Empty
              THEN LET p == Id_split(i.l)
                   IN  <<Id_Split(p[1], Empty), Id_Split(p[2], Empty)>>
              ELSE <<Id_Split(i.l, Empty), Id_Split(Empty, i.r)>>

\* Id::split: the pair <<first, second>>.
Id_split(i) ==
    IF i = Empty THEN <<Empty, Empty>>
    ELSE IF i = Full THEN <<Id_Split(Full, Empty), Id_Split(Empty, Full)>>
    ELSE IF i.l = Empty
         THEN LET p == Id_split(i.r)
              IN  <<Id_Split(Empty, p[1]), Id_Split(Empty, p[2])>>
         ELSE IF i.r = Empty
              THEN LET p == Id_split(i.l)
                   IN  <<Id_Split(p[1], Empty), Id_Split(p[2], Empty)>>
              ELSE <<Id_Split(i.l, Empty), Id_Split(Empty, i.r)>>

RECURSIVE Id_sum(_, _)
\* Id::sum made total: full ownership absorbs whatever it is summed with.
Id_sum_total(a, b) ==
    IF a = Empty THEN b
    ELSE IF b = Empty THEN a
    ELSE IF a.t = "Split" /\ b.t = "Split"
         THEN Id_norm(Id_Split(Id_sum(a.l, b.l), Id_sum(a.r, b.r)))
         ELSE Full

\* Id::sum whose last arm lets Full absorb a Split and panics on two Fulls.
Id_sum_full_absorbs(a, b) ==
    IF a = Empty THEN b
    ELSE IF b = Empty THEN a
    ELSE IF a.t = "Split" /\ b.t = "Split"
         THEN LET l == Id_sum(a.l, b.l)
              IN  IF IsPanic(l) THEN l
                  ELSE LET r == Id_sum(a.r, b.r)
                       IN  IF IsPanic(r) THEN r
                           ELSE Id_norm(Id_Split(l, r))
         ELSE IF a = Full /\ b = Full THEN Panic("unreachable: Id::sum")
         ELSE Full

\* Id::sum that does not normalise the Split it builds.
Id_sum_no_norm(a, b) ==
    IF a = Empty THEN b
    ELSE IF b = Empty THEN a
    ELSE IF a.t = "Split" /\ b.t = "Split"
         THEN LET l == Id_sum(a.l, b.l)
              IN  IF IsPanic(l) THEN l
                  ELSE LET r == Id_sum(a.r, b.r)
                       IN  IF IsPanic(r) THEN r
                           ELSE Id_Split(l, r)
         ELSE Panic("unreachable: Id::sum")

\* Id::sum whose Split arm sums the left branches and keeps the right
\* branch of the first id.
Id_sum_drops_right(a, b) ==
    IF a = Empty THEN b
    ELSE IF b = Empty THEN a
    ELSE IF a.t = "Split" /\ b.t = "Split"
         THEN LET l == Id_sum(a.l, b.l)
              IN  IF IsPanic(l) THEN l ELSE Id_norm(Id_Split(l, a.r))
         ELSE Panic("unreachable: Id::sum")

\* Id::sum: the union of two ids, or the panic of its unreachable!() arm.
Id_sum(a, b) ==
    IF a = Empty THEN b
    ELSE IF b = Empty THEN a
    ELSE IF a.t = "Split" /\ b.t = "Split"
         THEN LET l == Id_sum(a.l, b.l)
              IN  IF IsPanic(l) THEN l
                  ELSE LET r == Id_sum(a.r, b.r)
                       IN  IF IsPanic(r) THEN r
                           ELSE Id_norm(Id_Split(l, r))
         ELSE Panic("unreachable: Id::sum")

(***************************************************************************)
(* enum Event                                                              *)
(***************************************************************************)
N(n) == [t |-> "N", n |-> n]

Event_Split(n, l, r) == [t |-> "Split", n |-> n, l |-> l, r |-> r]

Event_split_from(n) == Event_Split(n, N(0), N(0))

RECURSIVE Event_min(_)
Event_min(e) ==
    IF e.t = "N" THEN e.n
    ELSE e.n + Min2(Event_min(e.l), Event_min(e.r))

RECURSIVE Event_max(_)
Event_max(e) ==
    IF e.t = "N" THEN e.n
    ELSE e.n + Max2(Event_max(e.l), Event_max(e.r))

\* Event::lift that forgets the Split arm.
Event_lift_leaf(e, m) ==
    IF e.t = "N" THEN N(e.n + m) ELSE e

\* Event::lift: the offset goes to the root only.
Event_lift(e, m) ==
    IF e.t = "N" THEN N(e.n + m)
    ELSE Event_Split(e.n + m, e.l, e.r)

\* Event::sink: u32 subtraction at the root; below zero it overflows.
Event_sink(e, m) ==
    IF e.n < m THEN Panic("attempt to subtract with overflow")
    ELSE IF e.t = "N" THEN N(e.n - m)
    ELSE Event_Split(e.n - m, e.l, e.r)

\* Event::norm: one level only, as the code.
Event_norm(e) ==
    IF e.t = "N" THEN e
    ELSE IF e.l.t = "N" /\ e.r.t = "N" /\ e.l.n = e.r.n
         THEN N(e.n + e.l.n)
         ELSE LET m  == Min2(Event_min(e.l), Event_min(e.r))
                  e1 == Event_sink(e.l, m)
                  e2 == Event_sink(e.r, m)
              IN  IF IsPanic(e1) THEN e1
                  ELSE IF IsPanic(e2) THEN e2
                  ELSE Event_Split(e.n + m, e1, e2)

RECURSIVE Event_join(_, _)
\* Event::join whose leaf arm returns n1 on both branches.
Event_join_first(a, b) ==
    IF a.t = "N" /\ b.t = "N" THEN N(IF a.n > b.n THEN a.n ELSE a.n)
    ELSE IF a.t = "N" THEN Event_join(Event_split_from(a.n), b)
    ELSE IF b.t = "N" THEN Event_join(a, Event_split_from(b.n))
    ELSE IF a.n > b.n THEN Event_join(b, a)
    ELSE LET n     == b.n - a.n
             left  == Event_join(a.l, Event_lift(b.l, n))
         IN  IF IsPanic(left) THEN left
             ELSE LET right == Event_join(a.r, Event_lift(b.r, n))
                  IN  IF IsPanic(right) THEN right
                      ELSE Event_norm(Event_Split(a.n, left, right))

\* Event::join whose Split arm does not normalise what it builds.
Event_join_no_norm(a, b) ==
    IF a.t = "N" /\ b.t = "N" THEN N(IF a.n > b.n THEN a.n ELSE b.n)
    ELSE IF a.t = "N" THEN Event_join(Event_split_from(a.n), b)
    ELSE IF b.t = "N" THEN Event_join(a, Event_split_from(b.n))
    ELSE IF a.n > b.n THEN Event_join(b, a)
    ELSE LET n     == b.n - a.n
             left  == Event_join(a.l, Event_lift(b.l, n))
         IN  IF IsPanic(left) THEN left
             ELSE LET right == Event_join(a.r, Event_lift(b.r, n))
                  IN  IF IsPanic(right) THEN right
                      ELSE Event_Split(a.n, left, right)

Event_join(a, b) ==
    IF a.t = "N" /\ b.t = "N" THEN N(IF a.n > b.n THEN a.n ELSE b.n)
    ELSE IF a.t = "N" THEN Event_join(Event_split_from(a.n), b)
    ELSE IF b.t = "N" THEN Event_join(a, Event_split_from(b.n))
    ELSE IF a.n > b.n THEN Event_join(b, a)
    ELSE LET n     == b.n - a.n
             left  == Event_join(a.l, Event_lift(b.l, n))
         IN  IF IsPanic(left) THEN left
             ELSE LET right == Event_join(a.r, Event_lift(b.r, n))
                  IN  IF IsPanic(right) THEN right
                      ELSE Event_norm(Event_Split(a.n, left, right))

RECURSIVE Event_leq(_, _)
\* Event::leq whose Split against Split arm looks at the left branches only.
Event_leq_left_only(a, b) ==
    IF a.t = "N" THEN a.n <= b.n
    ELSE IF b.t = "N"
         THEN /\ a.n <= b.n
              /\ Event_leq(Event_lift(a.l, a.n), b)
              /\ Event_leq(Event_lift(a.r, a.n), b)
         ELSE /\ a.n <= b.n
              /\ Event_leq(Event_lift(a.l, a.n), Event_lift(b.l, b.n))

Event_leq(a, b) ==
    IF a.t = "N" THEN a.n <= b.n
    ELSE IF b.t = "N"
         THEN /\ a.n <= b.n
              /\ Event_leq(Event_lift(a.l, a.n), b)
              /\ Event_leq(Event_lift(a.r, a.n), b)
         ELSE /\ a.n <= b.n
              /\ Event_leq(Event_lift(a.l, a.n), Event_lift(b.l, b.n))
              /\ Event_leq(Event_lift(a.r, a.n), Event_lift(b.r, b.n))

(***************************************************************************)
(* struct Stamp                                                            *)
(***************************************************************************)
Stamp(id, event) == [id |-> id, event |-> event]

\* Stamp::seed
seed == Stamp(Full, N(0))

\* Stamp::fork that hands the first half to both stamps.
fork_same_half(s) ==
    LET ids == Id_split(s.id)
    IN  <<Stamp(ids[1], s.event), Stamp(ids[1], s.event)>>

\* Stamp::fork: the pair <<first, second>>.
fork(s) ==
    LET ids == Id_split(s.id)
    IN  <<Stamp(ids[1], s.event), Stamp(ids[2], s.event)>>

\* Stamp::peek that hands out the stamp with its id.
peek_keeps_id(s) == s

\* Stamp::peek
peek(s) == Stamp(Empty, s.event)

RECURSIVE fill(_)
\* fn fill inside Stamp::event
fill(s) ==
    IF s.id = Empty THEN s.event
    ELSE IF s.id = Full THEN N(Event_max(s.event))
    ELSE IF s.event.t = "N" THEN s.event
    ELSE IF s.id.l = Full
         THEN LET e_right == fill(Stamp(s.id.r, s.event.r))
              IN  IF IsPanic(e_right) THEN e_right
                  ELSE Event_norm(Event_Split(s.event.n,
                           N(Max2(Event_max(s.event.l), Event_min(e_right))),
                           e_right))
         ELSE IF s.id.r = Full
              THEN LET e_left == fill(Stamp(s.id.l, s.event.l))
                   IN  IF IsPanic(e_left) THEN e_left
                       ELSE Event_norm(Event_Split(s.event.n, e_left,
                                N(Max2(Event_max(s.event.r), Event_min(e_left)))))
              ELSE LET e_left == fill(Stamp(s.id.l, s.event.l))
                   IN  IF IsPanic(e_left) THEN e_left
                       ELSE LET e_right == fill(Stamp(s.id.r, s.event.r))
                            IN  IF IsPanic(e_right) THEN e_right
                                ELSE Event_norm(Event_Split(s.event.n, e_left, e_right))

\* const GREATER_THAN_MAX_TREE_DEPTH inside grow
GREATER_THAN_MAX_TREE_DEPTH == 1000

Grown(e, cost) == [event |-> e, cost |-> cost]

RECURSIVE grow(_)
\* fn grow inside Stamp::event: the new event tree with its cost, or a panic.
grow(s) ==
    IF s.event.t = "N"
    THEN IF s.id = Full THEN Grown(N(s.event.n + 1), 0)
         ELSE LET g == grow(Stamp(s.id, Event_split_from(s.event.n)))
              IN  IF IsPanic(g) THEN g
                  ELSE Grown(g.event, g.cost + GREATER_THAN_MAX_TREE_DEPTH)
    ELSE IF s.id.t = "Split"
    THEN IF s.id.l = Empty
         THEN LET g == grow(Stamp(s.id.r, s.event.r))
              IN  IF IsPanic(g) THEN g
                  ELSE Grown(Event_Split(s.event.n, s.event.l, g.event), g.cost + 1)
         ELSE IF s.id.r = Empty
         THEN LET g == grow(Stamp(s.id.l, s.event.l))
              IN  IF IsPanic(g) THEN g
                  ELSE Grown(Event_Split(s.event.n, g.event, s.event.r), g.cost + 1)
         ELSE LET gl == grow(Stamp(s.id.l, s.event.l))
              IN  IF IsPanic(gl) THEN gl
                  ELSE LET gr == grow(Stamp(s.id.r, s.event.r))
                       IN  IF IsPanic(gr) THEN gr
                           ELSE IF gl.cost < gr.cost
                                THEN Grown(Event_Split(s.event.n, gl.event, s.event.r),
                                           gl.cost + 1)
                                ELSE Grown(Event_Split(s.event.n, s.event.l, gr.event),
                                           gr.cost + 1)
    ELSE IF s.id = Full THEN Panic("unreachable: grow Full")
    ELSE Panic("unreachable: grow Empty")

\* Stamp::event without its assert_ne!(self.id, Id::Empty).
event_unchecked(s) ==
    LET filled_event == fill(s)
    IN  IF IsPanic(filled_event) THEN filled_event
        ELSE IF filled_event = s.event THEN Stamp(s.id, filled_event)
        ELSE LET g == grow(s)
             IN  IF IsPanic(g) THEN g ELSE Stamp(s.id, g.event)

\* Stamp::event: the new stamp, or a panic.  The filled tree is returned when
\* it EQUALS the old one, and grow runs when fill changed the tree.
event(s) ==
    IF s.id = Empty THEN Panic("assertion failed: id != Empty")
    ELSE LET filled_event == fill(s)
         IN  IF IsPanic(filled_event) THEN filled_event
             ELSE IF filled_event = s.event THEN Stamp(s.id, filled_event)
             ELSE LET g == grow(s)
                  IN  IF IsPanic(g) THEN g ELSE Stamp(s.id, g.event)

\* Stamp::join: the id sum is evaluated first; its panic ends the call.
join(s1, s2) ==
    LET id == Id_sum(s1.id, s2.id)
    IN  IF IsPanic(id) THEN id
        ELSE LET e == Event_join(s1.event, s2.event)
             IN  IF IsPanic(e) THEN e ELSE Stamp(id, e)

\* Stamp::leq
leq(s1, s2) == Event_leq(s1.event, s2.event)

\* IntervalTreeClock::partial_cmp with the two one-way arms exchanged.
partial_cmp_swapped(s1, s2) ==
    IF leq(s1, s2)
    THEN IF leq(s2, s1) THEN "Equal" ELSE "Greater"
    ELSE IF leq(s2, s1) THEN "Less" ELSE "None"

\* IntervalTreeClock::partial_cmp
partial_cmp(s1, s2) ==
    IF leq(s1, s2)
    THEN IF leq(s2, s1) THEN "Equal" ELSE "Less"
    ELSE IF leq(s2, s1) THEN "Greater" ELSE "None"

\* IntervalTreeClock::eq
eq(s1, s2) == leq(s1, s2) /\ leq(s2, s1)

\* IntervalTreeClock::send: bump, then a clock made of the peeked stamp.  The
\* result is the sender's stamp after the call with the returned clock's
\* stamp, or the panic of event, which leaves the sender as it was.
send(s) ==
    LET r == event(s)
    IN  IF IsPanic(r) THEN r ELSE [self |-> r, ret |-> peek(r)]

(***************************************************************************)
(* Trees in normal form, the inputs the functions are applied to.          *)
(***************************************************************************)
RECURSIVE IdTrees(_)
\* The normal-form id trees of depth at most d.
IdTrees(d) ==
    IF d = 0 THEN {Empty, Full}
    ELSE LET S == IdTrees(d - 1)
         IN  S \cup ({ Id_Split(l, r) : l \in S, r \in S }
                       \ { Id_Split(Empty, Empty), Id_Split(Full, Full) })

RECURSIVE EventTrees(_, _)
\* The normal-form event trees of depth at most d whose values stay within m.
EventTrees(d, m) ==
    IF d = 0 THEN { N(k) : k \in 0..m }
    ELSE { N(k) : k \in 0..m } \cup
         UNION { { Event_Split(n, p[1], p[2]) :
                     p \in { q \in EventTrees(d - 1, m - n) \X EventTrees(d - 1, m - n) :
                               /\ Min2(Event_min(q[1]), Event_min(q[2])) = 0
                               /\ ~(q[1].t = "N" /\ q[2].t = "N" /\ q[1].n = q[2].n) } } :
                 n \in 0..m }

RECURSIVE IdDepth(_)
IdDepth(i) == IF i.t = "Split" THEN 1 + Max2(IdDepth(i.l), IdDepth(i.r)) ELSE 0

StampsOf(ids, evs) == { Stamp(i, e) : i \in ids, e \in evs }

\* One-argument calls: ids and event trees to depth 2.
UnaryArgs == { <<s>> : s \in StampsOf(IdTrees(2), EventTrees(2, MaxN)) }

\* Two-argument calls: ids to depth 2 that have seen no event, ids and event
\* trees to depth 1, and anonymous stamps with event trees to depth 2.
BinaryArgs ==
    LET A == StampsOf(IdTrees(2), {N(0)})
        B == StampsOf(IdTrees(1), EventTrees(1, MaxN))
        C == StampsOf({Empty}, EventTrees(2, MaxN))
    IN  (A \X A) \cup (B \X B) \cup (C \X C)

\* Three-argument calls: ids and event trees to depth 1 of values below MaxN,
\* and anonymous stamps of which one has an event tree to depth 2 and the
\* other two to depth 1.
TernaryArgs ==
    LET A == StampsOf(IdTrees(1), EventTrees(1, MaxN - 1))
        C == StampsOf({Empty}, EventTrees(2, MaxN))
        D == StampsOf({Empty}, EventTrees(1, MaxN))
    IN  (A \X A \X A) \cup (C \X D \X D) \cup (D \X C \X D) \cup (D \X D \X C)

(***************************************************************************)
(* State.                                                                  *)
(*   clocks  the live IntervalTreeClock values (participants' clocks and   *)
(*           messages in flight): each a stamp and, as history, the set of *)
(*           recorded events it has seen                                   *)
(*   events  the recorded events in the order they happened: the stamp     *)
(*           taken at the event, its causal history, the operation         *)
(*   args    the arguments of a function call on arbitrary stamps          *)
(*   last    the last call: its name, the stamps it read, what it returned *)
(*   steps   the number of operations executed so far                      *)
(***************************************************************************)
VARIABLES clocks, events, args, last, steps

vars == <<clocks, events, args, last, steps>>

Call(op, at, in, out) == [op |-> op, at |-> at, in |-> in, out |-> out]

NoCall == Call("none", 0, <<>>, <<>>)

Clock(stamp, hist) == [stamp |-> stamp, hist |-> hist]

RemoveAt(seq, j) == [k \in 1..(Len(seq) - 1) |-> IF k < j THEN seq[k] ELSE seq[k + 1]]

\* join and event as receive chains them: a panic of the first ends the call.
join_event(s1, s2) ==
    LET j == join(s1, s2) IN IF IsPanic(j) THEN j ELSE event(j)

\* join(join(s1, s2), s3)
join_join(s1, s2, s3) ==
    LET j == join(s1, s2) IN IF IsPanic(j) THEN j ELSE join(j, s3)

\* s' = event(s), m = peek(s'), join(s', m): a panic of event ends the chain.
event_peek_join(s) ==
    LET s1 == event(s) IN IF IsPanic(s1) THEN s1 ELSE join(s1, peek(s1))

(***************************************************************************)
(* Executions from IntervalTreeClock::new().  A clock that is forked,      *)
(* joined or received is consumed: each live stamp has one holder.         *)
(***************************************************************************)
Init ==
    /\ clocks = <<Clock(seed, {})>>
    /\ events = <<>>
    /\ args = <<>>
    /\ last = NoCall
    /\ steps = 0

\* One more operation of the execution.
Step == steps < MaxSteps /\ steps' = steps + 1

\* IntervalTreeClock::fork
ForkAt(i) ==
    /\ Len(clocks) < MaxClocks
    /\ IdDepth(clocks[i].stamp.id) < MaxForkDepth
    /\ LET f == fork(clocks[i].stamp)
       IN  /\ clocks' = Append([clocks EXCEPT ![i] = Clock(f[1], clocks[i].hist)],
                               Clock(f[2], clocks[i].hist))
           /\ last' = Call("fork", i, <<clocks[i].stamp>>, f)
    /\ UNCHANGED <<events, args>>
    /\ Step

\* Stamp::peek
PeekAt(i) ==
    /\ Len(clocks) < MaxClocks
    /\ clocks' = Append(clocks, Clock(peek(clocks[i].stamp), clocks[i].hist))
    /\ last' = Call("peek", i, <<clocks[i].stamp>>, <<peek(clocks[i].stamp)>>)
    /\ UNCHANGED <<events, args>>
    /\ Step

\* IntervalTreeClock::bump
BumpAt(i) ==
    LET r == event(clocks[i].stamp)
        k == Len(events) + 1
    IN  /\ last' = Call("bump", i, <<clocks[i].stamp>>, <<r>>)
        /\ IF IsPanic(r)
           THEN UNCHANGED <<clocks, events>>
           ELSE /\ k <= MaxEvents
                /\ clocks' = [clocks EXCEPT ![i] = Clock(r, clocks[i].hist \cup {k})]
                /\ events' = Append(events, [stamp |-> r, hist |-> clocks[i].hist \cup {k},
                                             by |-> "bump"])
        /\ UNCHANGED args
        /\ Step

\* IntervalTreeClock::send: the returned clock is a message in flight.
SendAt(i) ==
    LET r == event(clocks[i].stamp)
        k == Len(events) + 1
    IN  /\ IF IsPanic(r)
           THEN /\ last' = Call("send", i, <<clocks[i].stamp>>, <<r>>)
                /\ UNCHANGED <<clocks, events>>
           ELSE /\ k <= MaxEvents
                /\ Len(clocks) < MaxClocks
                /\ last' = Call("send", i, <<clocks[i].stamp>>, <<peek(r)>>)
                /\ clocks' = Append([clocks EXCEPT ![i] = Clock(r, clocks[i].hist \cup {k})],
                                    Clock(peek(r), clocks[i].hist \cup {k}))
                /\ events' = Append(events, [stamp |-> r, hist |-> clocks[i].hist \cup {k},
                                             by |-> "send"])
        /\ UNCHANGED args
        /\ Step

\* IntervalTreeClock::receive of clock j by clock i.
ReceiveAt(i, j) ==
    LET r == join_event(clocks[i].stamp, clocks[j].stamp)
        k == Len(events) + 1
        h == clocks[i].hist \cup clocks[j].hist \cup {k}
    IN  /\ i # j
        /\ last' = Call("receive", i, <<clocks[i].stamp, clocks[j].stamp>>, <<r>>)
        /\ IF IsPanic(r)
           THEN UNCHANGED <<clocks, events>>
           ELSE /\ k <= MaxEvents
                /\ clocks' = RemoveAt([clocks EXCEPT ![i] = Clock(r, h)], j)
                /\ events' = Append(events, [stamp |-> r, hist |-> h, by |-> "receive"])
        /\ UNCHANGED args
        /\ Step

\* Stamp::join of clocks i and j.
JoinAt(i, j) ==
    LET r == join(clocks[i].stamp, clocks[j].stamp)
    IN  /\ i # j
        /\ last' = Call("join", i, <<clocks[i].stamp, clocks[j].stamp>>, <<r>>)
        /\ IF IsPanic(r)
           THEN UNCHANGED clocks
           ELSE clocks' = RemoveAt([clocks EXCEPT
                                      ![i] = Clock(r, clocks[i].hist \cup clocks[j].hist)], j)
        /\ UNCHANGED <<events, args>>
        /\ Step

\* IntervalTreeClock::sync of clocks i and j.
SyncAt(i, j) ==
    LET r == join(clocks[i].stamp, clocks[j].stamp)
        h == clocks[i].hist \cup clocks[j].hist
    IN  /\ i # j
        /\ IdDepth(clocks[i].stamp.id) < MaxForkDepth
        /\ IdDepth(clocks[j].stamp.id) < MaxForkDepth
        /\ IF IsPanic(r)
           THEN /\ last' = Call("sync", i, <<clocks[i].stamp, clocks[j].stamp>>, <<r>>)
                /\ UNCHANGED clocks
           ELSE /\ last' = Call("sync", i, <<clocks[i].stamp, clocks[j].stamp>>, fork(r))
                /\ clocks' = [clocks EXCEPT ![i] = Clock(fork(r)[1], h),
                                            ![j] = Clock(fork(r)[2], h)]
        /\ UNCHANGED <<events, args>>
        /\ Step

Fork == \E i \in 1..Len(clocks) : ForkAt(i)

Peek == \E i \in 1..Len(clocks) : PeekAt(i)

Bump == \E i \in 1..Len(clocks) : BumpAt(i)

Send == \E i \in 1..Len(clocks) : SendAt(i)

Receive == \E i \in 1..Len(clocks), j \in 1..Len(clocks) : ReceiveAt(i, j)

Join == \E i \in 1..Len(clocks), j \in 1..Len(clocks) : JoinAt(i, j)

Sync == \E i \in 1..Len(clocks), j \in 1..Len(clocks) : SyncAt(i, j)

Next == Fork \/ Peek \/ Bump \/ Send \/ Receive \/ Join \/ Sync

Spec == Init /\ [][Next]_vars

(***************************************************************************)
(* Executions of three participants: IntervalTreeClock::new() forked, and  *)
(* one of the halves forked again, before the participants start.  From    *)
(* there on they use the three operations of the LamportClock trait.       *)
(***************************************************************************)
ThreeParticipants ==
    LET f  == fork(seed)
        g1 == fork(f[1])
        g2 == fork(f[2])
    IN  { <<Clock(g1[1], {}), Clock(g1[2], {}), Clock(f[2], {})>>,
          <<Clock(f[1], {}), Clock(g2[1], {}), Clock(g2[2], {})>> }

Init3 ==
    /\ clocks \in ThreeParticipants
    /\ events = <<>>
    /\ args = <<>>
    /\ last = NoCall
    /\ steps = 0

Next3 == Bump \/ Send \/ Receive

Spec3 == Init3 /\ [][Next3]_vars

(***************************************************************************)
(* The functions applied to arbitrary stamps in normal form.               *)
(***************************************************************************)
InitFn ==
    /\ clocks = <<>>
    /\ events = <<>>
    /\ args \in UnaryArgs \cup BinaryArgs \cup TernaryArgs
    /\ last = NoCall
    /\ steps = 0

ApplyEvent ==
    /\ Len(args) = 1
    /\ last' = Call("event", 0, args, <<event(args[1])>>)
    /\ UNCHANGED <<clocks, events, args, steps>>

ApplyFork ==
    /\ Len(args) = 1
    /\ last' = Call("fork", 0, args, fork(args[1]))
    /\ UNCHANGED <<clocks, events, args, steps>>

ApplyPeek ==
    /\ Len(args) = 1
    /\ last' = Call("peek", 0, args, <<peek(args[1])>>)
    /\ UNCHANGED <<clocks, events, args, steps>>

ApplyJoin ==
    /\ Len(args) = 2
    /\ last' = Call("join", 0, args, <<join(args[1], args[2])>>)
    /\ UNCHANGED <<clocks, events, args, steps>>

ApplyJoinJoin ==
    /\ Len(args) = 3
    /\ last' = Call("join_join", 0, args, <<join_join(args[1], args[2], args[3])>>)
    /\ UNCHANGED <<clocks, events, args, steps>>

ApplySend ==
    /\ Len(args) = 1
    /\ last' = Call("send", 0, args, <<send(args[1])>>)
    /\ UNCHANGED <<clocks, events, args, steps>>

ApplyEventPeekJoin ==
    /\ Len(args) = 1
    /\ last' = Call("event_peek_join", 0, args, <<event_peek_join(args[1])>>)
    /\ UNCHANGED <<clocks, events, args, steps>>

\* a.partial_cmp(&b) and a == b of two clocks.
ApplyCompare ==
    /\ Len(args) = 2
    /\ last' = Call("compare", 0, args,
                    <<[ord |-> partial_cmp(args[1], args[2]),
                       eq  |-> eq(args[1], args[2])]>>)
    /\ UNCHANGED <<clocks, events, args, steps>>

\* Id::sum of the ids of two stamps.
ApplyIdSum ==
    /\ Len(args) = 2
    /\ last' = Call("Id_sum", 0, args, <<Id_sum(args[1].id, args[2].id)>>)
    /\ UNCHANGED <<clocks, events, args, steps>>

\* fn grow as Stamp::event calls it: the id is not Empty and fill has
\* returned a tree that differs from the stamp's.
ApplyGrow ==
    /\ Len(args) = 1
    /\ args[1].id # Empty
    /\ fill(args[1]) # args[1].event
    /\ last' = Call("grow", 0, args, <<grow(args[1])>>)
    /\ UNCHANGED <<clocks, events, args, steps>>

NextFn ==
    \/ ApplyEvent \/ ApplyFork \/ ApplyPeek \/ ApplyJoin \/ ApplyJoinJoin
    \/ ApplySend \/ ApplyEventPeekJoin \/ ApplyCompare \/ ApplyIdSum
    \/ ApplyGrow

SpecFn == InitFn /\ [][NextFn]_vars

(***************************************************************************)
(* The two norm functions applied to arbitrary trees, children outside     *)
(* normal form included.                                                   *)
(***************************************************************************)
RECURSIVE AnyIdTrees(_)
\* The id trees of depth at most d.
AnyIdTrees(d) ==
    IF d = 0 THEN {Empty, Full}
    ELSE LET S == AnyIdTrees(d - 1)
         IN  S \cup { Id_Split(l, r) : l \in S, r \in S }

RECURSIVE AnyEventTrees(_, _)
\* The event trees of depth at most d with every base value within m.
AnyEventTrees(d, m) ==
    IF d = 0 THEN { N(k) : k \in 0..m }
    ELSE LET S == AnyEventTrees(d - 1, m)
         IN  S \cup { Event_Split(n, l, r) : n \in 0..m, l \in S, r \in S }

NormArgs ==
    { <<x>> : x \in AnyEventTrees(2, MaxN) } \cup { <<i>> : i \in AnyIdTrees(3) }

\* An Event has a base value, an Id has none.
IsEvent(x) == "n" \in DOMAIN x

InitNorm ==
    /\ clocks = <<>>
    /\ events = <<>>
    /\ args \in NormArgs
    /\ last = NoCall
    /\ steps = 0

ApplyEventNorm ==
    /\ IsEvent(args[1])
    /\ last' = Call("Event_norm", 0, args, <<Event_norm(args[1])>>)
    /\ UNCHANGED <<clocks, events, args, steps>>

ApplyIdNorm ==
    /\ ~IsEvent(args[1])
    /\ last' = Call("Id_norm", 0, args, <<Id_norm(args[1])>>)
    /\ UNCHANGED <<clocks, events, args, steps>>

\* Event::lift by an offset m.
ApplyEventLiftBy(m) ==
    /\ IsEvent(args[1])
    /\ last' = Call("Event_lift", 0, <<args[1], [m |-> m]>>, <<Event_lift(args[1], m)>>)
    /\ UNCHANGED <<clocks, events, args, steps>>

ApplyEventLift == \E m \in 0..MaxN : ApplyEventLiftBy(m)

NextNorm == ApplyEventNorm \/ ApplyIdNorm \/ ApplyEventLift

SpecNorm == InitNorm /\ [][NextNorm]_vars

(***************************************************************************)
(* Event::join and Event::leq applied to pairs of event trees: arbitrary   *)
(* trees to depth 1, normal-form trees to depth 2, and arbitrary trees to  *)
(* depth 2 with base values 0 and 1.                                       *)
(***************************************************************************)
EventPairArgs ==
    (AnyEventTrees(1, MaxN) \X AnyEventTrees(1, MaxN))
        \cup (EventTrees(2, MaxN) \X EventTrees(2, MaxN))
        \cup (AnyEventTrees(2, 1) \X AnyEventTrees(2, 1))

InitEvent ==
    /\ clocks = <<>>
    /\ events = <<>>
    /\ args \in EventPairArgs
    /\ last = NoCall
    /\ steps = 0

ApplyEventJoin ==
    /\ last' = Call("Event_join", 0, args, <<Event_join(args[1], args[2])>>)
    /\ UNCHANGED <<clocks, events, args, steps>>

ApplyEventLeq ==
    /\ last' = Call("Event_leq", 0, args, <<[leq |-> Event_leq(args[1], args[2])]>>)
    /\ UNCHANGED <<clocks, events, args, steps>>

NextEvent == ApplyEventJoin \/ ApplyEventLeq

SpecEvent == InitEvent /\ [][NextEvent]_vars

(***************************************************************************)
(* struct VectorClock<usize, usize> (src/src/vector_clock.rs): the map     *)
(* clock, a function on the keys that have an entry, and the owner's key i.*)
(***************************************************************************)
VectorClock(clock, i) == [clock |-> clock, i |-> i]

\* VectorClock::new
VectorClock_new(i) == VectorClock([k \in {} |-> 0], i)

\* HashMap::insert
HashMap_insert(m, k, v) ==
    [x \in DOMAIN m \cup {k} |-> IF x = k THEN v ELSE m[x]]

\* VectorClock::get: the entry, or the default of usize.
VectorClock_get(c, k) == IF k \in DOMAIN c.clock THEN c.clock[k] ELSE 0

\* VectorClock::bump
VectorClock_bump(c) ==
    LET value == (IF c.i \in DOMAIN c.clock THEN c.clock[c.i] ELSE 0) + 1
    IN  VectorClock(HashMap_insert(c.clock, c.i, value), c.i)

\* VectorClock::merge that inserts nothing.
VectorClock_merge_nothing(c, other) == c

\* VectorClock::merge that inserts every entry of other.
VectorClock_merge_overwrite(c, other) ==
    VectorClock([k \in DOMAIN c.clock \cup DOMAIN other.clock |->
                    IF k \in DOMAIN other.clock THEN other.clock[k] ELSE c.clock[k]],
                c.i)

\* VectorClock::merge: an entry of other is inserted when self has none for
\* the key or a smaller one.
VectorClock_merge(c, other) ==
    VectorClock([k \in DOMAIN c.clock \cup DOMAIN other.clock |->
                    IF /\ k \in DOMAIN other.clock
                       /\ (k \in DOMAIN c.clock => c.clock[k] < other.clock[k])
                    THEN other.clock[k]
                    ELSE c.clock[k]],
                c.i)

\* VectorClock::send: the sender after the call and the clone it returns.
VectorClock_send(c) ==
    LET b == VectorClock_bump(c) IN [self |-> b, ret |-> b]

\* VectorClock::receive
VectorClock_receive(c, incoming_clock) ==
    VectorClock_bump(VectorClock_merge(c, incoming_clock))

\* fn subset_eq inside VectorClock::eq
subset_eq(left, right) ==
    \A k \in DOMAIN left.clock :
        IF k \in DOMAIN right.clock
        THEN right.clock[k] = left.clock[k]
        ELSE 0 = left.clock[k]

\* VectorClock::eq
VectorClock_eq(a, b) ==
    \/ a.clock = b.clock
    \/ subset_eq(a, b) /\ subset_eq(b, a)

\* fn subset_cmp inside VectorClock::partial_cmp
subset_cmp(left, right) ==
    [has_greater |-> \E k \in DOMAIN left.clock :
                        IF k \in DOMAIN right.clock
                        THEN left.clock[k] > right.clock[k]
                        ELSE 0 < left.clock[k],
     has_less    |-> \E k \in DOMAIN left.clock :
                        k \in DOMAIN right.clock /\ left.clock[k] < right.clock[k]]

\* VectorClock::partial_cmp with the arms of Less and Greater exchanged.
VectorClock_partial_cmp_swapped(a, b) ==
    LET has_greater == subset_cmp(a, b).has_greater
        has_less    == subset_cmp(b, a).has_greater
    IN  IF has_greater /\ ~has_less THEN "Less"
        ELSE IF ~has_greater /\ has_less THEN "Greater"
        ELSE IF ~has_greater /\ ~has_less THEN "Equal"
        ELSE "None"

\* VectorClock::partial_cmp: has_less is other's has_greater.
VectorClock_partial_cmp(a, b) ==
    LET has_greater == subset_cmp(a, b).has_greater
        has_less    == subset_cmp(b, a).has_greater
    IN  IF has_greater /\ ~has_less THEN "Greater"
        ELSE IF ~has_greater /\ has_less THEN "Less"
        ELSE IF ~has_greater /\ ~has_less THEN "Equal"
        ELSE "None"

\* VectorClock::happens_before: self < other, the lt of PartialOrd.
VectorClock_happens_before(a, b) == VectorClock_partial_cmp(a, b) = "Less"

\* VectorClock::is_concurrent_with
VectorClock_is_concurrent_with(a, b) == ~VectorClock_happens_before(a, b)

(***************************************************************************)
(* Executions of MaxProcs processes with the keys 1..MaxProcs, each with   *)
(* the vector clock VectorClock::new(key).  Here clocks holds the          *)
(* processes' clocks at 1..MaxProcs and behind them the clocks returned by *)
(* send, the messages in flight; receive borrows the message, which stays. *)
(***************************************************************************)
Procs == 1..MaxProcs

Holder(vc, hist) == [vc |-> vc, hist |-> hist]

Recorded(vc, hist, by, at) == [ts |-> vc, hist |-> hist, by |-> by, at |-> at]

InitVC ==
    /\ clocks = [p \in Procs |-> Holder(VectorClock_new(p), {})]
    /\ events = <<>>
    /\ args = <<>>
    /\ last = NoCall
    /\ steps = 0

\* VectorClock::bump by process p.
VCBumpAt(p) ==
    LET r == VectorClock_bump(clocks[p].vc)
        k == Len(events) + 1
        h == clocks[p].hist \cup {k}
    IN  /\ k <= MaxEvents
        /\ last' = Call("bump", p, <<clocks[p].vc>>, <<r>>)
        /\ clocks' = [clocks EXCEPT ![p] = Holder(r, h)]
        /\ events' = Append(events, Recorded(r, h, "bump", p))
        /\ UNCHANGED args
        /\ Step

\* VectorClock::send by process p: the returned clock is a message in flight.
VCSendAt(p) ==
    LET r == VectorClock_send(clocks[p].vc)
        k == Len(events) + 1
        h == clocks[p].hist \cup {k}
    IN  /\ k <= MaxEvents
        /\ last' = Call("send", p, <<clocks[p].vc>>, <<r.ret>>)
        /\ clocks' = Append([clocks EXCEPT ![p] = Holder(r.self, h)], Holder(r.ret, h))
        /\ events' = Append(events, Recorded(r.self, h, "send", p))
        /\ UNCHANGED args
        /\ Step

\* VectorClock::receive by process p of the message at j.
VCReceiveAt(p, j) ==
    LET r == VectorClock_receive(clocks[p].vc, clocks[j].vc)
        k == Len(events) + 1
        h == clocks[p].hist \cup clocks[j].hist \cup {k}
    IN  /\ k <= MaxEvents
        /\ last' = Call("receive", p, <<clocks[p].vc, clocks[j].vc>>, <<r>>)
        /\ clocks' = [clocks EXCEPT ![p] = Holder(r, h)]
        /\ events' = Append(events, Recorded(r, h, "receive", p))
        /\ UNCHANGED args
        /\ Step

VCBump == \E p \in Procs : VCBumpAt(p)

VCSend == \E p \in Procs : VCSendAt(p)

VCReceive == \E p \in Procs, j \in (MaxProcs + 1)..Len(clocks) : VCReceiveAt(p, j)

NextVC == VCBump \/ VCSend \/ VCReceive

SpecVC == InitVC /\ [][NextVC]_vars

(***************************************************************************)
(* The comparisons of vector clocks applied to two clocks of processes 1   *)
(* and 2.  An entry is at least 1: bump inserts the old value plus one and *)
(* merge copies entries, so no map holds a 0.  A clock is empty, as new    *)
(* returns it, or has an entry for its owner: every operation ends in bump.*)
(***************************************************************************)
VCMaps(i) ==
    UNION { [D -> 1..MaxCount] : D \in { E \in SUBSET Procs : E = {} \/ i \in E } }

VCArgs == { <<VectorClock(m1, 1), VectorClock(m2, 2)>> : m1 \in VCMaps(1), m2 \in VCMaps(2) }

InitVCFn ==
    /\ clocks = <<>>
    /\ events = <<>>
    /\ args \in VCArgs
    /\ last = NoCall
    /\ steps = 0

\* a.partial_cmp(&b), a == b, a < b and a > b of two vector clocks.
ApplyVCCompare ==
    /\ last' = Call("compare", 0, args,
                    <<[ord |-> VectorClock_partial_cmp(args[1], args[2]),
                       eq  |-> VectorClock_eq(args[1], args[2])]>>)
    /\ UNCHANGED <<clocks, events, args, steps>>

\* a.is_concurrent_with(&b)
ApplyVCConcurrent ==
    /\ last' = Call("is_concurrent_with", 0, args,
                    <<[concurrent |-> VectorClock_is_concurrent_with(args[1], args[2])]>>)
    /\ UNCHANGED <<clocks, events, args, steps>>

\* a.receive(&b)
ApplyVCReceive ==
    /\ last' = Call("receive", 0, args, <<VectorClock_receive(args[1], args[2])>>)
    /\ UNCHANGED <<clocks, events, args, steps>>

NextVCFn == ApplyVCCompare \/ ApplyVCConcurrent \/ ApplyVCReceive

SpecVCFn == InitVCFn /\ [][NextVCFn]_vars

(***************************************************************************)
(* struct HybridLogicalClock (src/src/hybrid_logical_clock.rs): the largest*)
(* physical time seen l, the counter c, and whether the clock has an NTP   *)
(* client (ntp is Some) or is a clock that send returned (ntp is None).    *)
(* Physical times are whole seconds.                                       *)
(***************************************************************************)
HybridLogicalClock(l, c, ntp) == [l |-> l, c |-> c, ntp |-> ntp]

\* u16::MAX, the largest value of the field c.
U16_MAX == 65535

\* What HybridLogicalClock::get_current_timestamp can give for a clock with
\* an NTP client: a reading, or the panic of unwrap() when the
\* synchronisation fails.
NtpReadings ==
    { [secs |-> t] : t \in 0..MaxPT }
        \cup { Panic("called Result::unwrap() on an Err value") }

\* HybridLogicalClock::get_current_timestamp, given what the client reads.
get_current_timestamp(h, reading) ==
    IF ~h.ntp THEN Panic("called Option::unwrap() on a None value")
    ELSE reading

\* HybridLogicalClock::bump whose second arm resets the counter.
HybridLogicalClock_bump_resets(h, reading) ==
    LET pt == get_current_timestamp(h, reading)
    IN  IF IsPanic(pt) THEN pt
        ELSE IF pt.secs > h.l THEN HybridLogicalClock(pt.secs, 0, h.ntp)
        ELSE HybridLogicalClock(h.l, 0, h.ntp)

\* HybridLogicalClock::bump: the clock after the call, or a panic.
HybridLogicalClock_bump(h, reading) ==
    LET pt == get_current_timestamp(h, reading)
    IN  IF IsPanic(pt) THEN pt
        ELSE IF pt.secs > h.l THEN HybridLogicalClock(pt.secs, 0, h.ntp)
        ELSE IF h.c = U16_MAX THEN Panic("attempt to add with overflow")
        ELSE HybridLogicalClock(h.l, h.c + 1, h.ntp)

\* HybridLogicalClock::send: the sender after the call and the clock it
\* returns, which has no NTP client; or the panic of bump.
HybridLogicalClock_send(h, reading) ==
    LET b == HybridLogicalClock_bump(h, reading)
    IN  IF IsPanic(b) THEN b
        ELSE [self |-> b, ret |-> HybridLogicalClock(b.l, b.c, FALSE)]

\* HybridLogicalClock::receive whose arms all add 1 to the clock's own
\* counter.
HybridLogicalClock_receive_own_counter(h, incoming_clock, reading) ==
    LET prev_l == h.l
        pt == get_current_timestamp(h, reading)
    IN  IF IsPanic(pt) THEN pt
        ELSE LET l == Max2(pt.secs, Max2(prev_l, incoming_clock.l))
             IN  IF l = prev_l \/ l = incoming_clock.l
                 THEN IF h.c = U16_MAX THEN Panic("attempt to add with overflow")
                      ELSE HybridLogicalClock(l, h.c + 1, h.ntp)
                 ELSE HybridLogicalClock(l, 0, h.ntp)

\* HybridLogicalClock::receive: the clock after the call, or a panic.
HybridLogicalClock_receive(h, incoming_clock, reading) ==
    LET prev_l == h.l
        pt == get_current_timestamp(h, reading)
    IN  IF IsPanic(pt) THEN pt
        ELSE LET l == Max2(pt.secs, Max2(prev_l, incoming_clock.l))
                 \* the counter that the matched arm adds 1 to; -1 in the
                 \* arm that sets c to 0
                 c == IF l = prev_l /\ l = incoming_clock.l
                      THEN Max2(h.c, incoming_clock.c)
                      ELSE IF l = prev_l THEN h.c
                      ELSE IF l = incoming_clock.l THEN incoming_clock.c
                      ELSE -1
             IN  IF c = U16_MAX THEN Panic("attempt to add with overflow")
                 ELSE HybridLogicalClock(l, c + 1, h.ntp)

\* HybridLogicalClock::partial_cmp: by l, and by c when the l are equal.
HybridLogicalClock_partial_cmp(a, b) ==
    IF a.l = b.l
    THEN IF a.c < b.c THEN "Less" ELSE IF a.c > b.c THEN "Greater" ELSE "Equal"
    ELSE IF a.l < b.l THEN "Less" ELSE "Greater"

(***************************************************************************)
(* Executions of two processes with hybrid logical clocks that start at    *)
(* l = 0, c = 0 with an NTP client.  Every call reads the physical time    *)
(* anew, and the reading is arbitrary.  Here clocks holds the two          *)
(* processes' clocks at 1 and 2 and behind them the clocks returned by     *)
(* send, the messages in flight; receive borrows the message.  The last    *)
(* call records, behind the clocks it read, what the NTP client read.      *)
(***************************************************************************)
HLCProcs == {1, 2}

InitHLC ==
    /\ clocks = [p \in HLCProcs |-> Holder(HybridLogicalClock(0, 0, TRUE), {})]
    /\ events = <<>>
    /\ args = <<>>
    /\ last = NoCall
    /\ steps = 0

\* HybridLogicalClock::bump by process p.
HLCBumpAt(p, reading) ==
    LET r == HybridLogicalClock_bump(clocks[p].vc, reading)
        k == Len(events) + 1
        h == clocks[p].hist \cup {k}
    IN  /\ last' = Call("bump", p, <<clocks[p].vc, reading>>, <<r>>)
        /\ IF IsPanic(r)
           THEN UNCHANGED <<clocks, events>>
           ELSE /\ k <= MaxEvents
                /\ clocks' = [clocks EXCEPT ![p] = Holder(r, h)]
                /\ events' = Append(events, Recorded(r, h, "bump", p))
        /\ UNCHANGED args
        /\ Step

\* HybridLogicalClock::send by process p: the returned clock is a message.
HLCSendAt(p, reading) ==
    LET r == HybridLogicalClock_send(clocks[p].vc, reading)
        k == Len(events) + 1
        h == clocks[p].hist \cup {k}
    IN  /\ IF IsPanic(r)
           THEN /\ last' = Call("send", p, <<clocks[p].vc, reading>>, <<r>>)
                /\ UNCHANGED <<clocks, events>>
           ELSE /\ k <= MaxEvents
                /\ last' = Call("send", p, <<clocks[p].vc, reading>>, <<r.ret>>)
                /\ clocks' = Append([clocks EXCEPT ![p] = Holder(r.self, h)],
                                    Holder(r.ret, h))
                /\ events' = Append(events, Recorded(r.self, h, "send", p))
        /\ UNCHANGED args
        /\ Step

\* HybridLogicalClock::receive by process p of the message at j.
HLCReceiveAt(p, j, reading) ==
    LET r == HybridLogicalClock_receive(clocks[p].vc, clocks[j].vc, reading)
        k == Len(events) + 1
        h == clocks[p].hist \cup clocks[j].hist \cup {k}
    IN  /\ last' = Call("receive", p, <<clocks[p].vc, clocks[j].vc, reading>>, <<r>>)
        /\ IF IsPanic(r)
           THEN UNCHANGED <<clocks, events>>
           ELSE /\ k <= MaxEvents
                /\ clocks' = [clocks EXCEPT ![p] = Holder(r, h)]
                /\ events' = Append(events, Recorded(r, h, "receive", p))
        /\ UNCHANGED args
        /\ Step

HLCBump == \E p \in HLCProcs, reading \in NtpReadings : HLCBumpAt(p, reading)

HLCSend == \E p \in HLCProcs, reading \in NtpReadings : HLCSendAt(p, reading)

HLCReceive ==
    \E p \in HLCProcs, j \in 3..Len(clocks), reading \in NtpReadings :
        HLCReceiveAt(p, j, reading)

NextHLC == HLCBump \/ HLCSend \/ HLCReceive

SpecHLC == InitHLC /\ [][NextHLC]_vars

(***************************************************************************)
(* Claims.                                                                 *)
(***************************************************************************)
In(k) == last.in[k]

Out(k) == last.out[k]

\* Recorded event a happens before recorded event b.
HappensBefore(a, b) == a # b /\ a \in events[b].hist

\* C1: for any two recorded events a and b of an execution from one seed, the
\* stamp taken at a compares strictly less than the stamp taken at b if and
\* only if a happens before b, and the two stamps compare as incomparable if
\* and only if a and b are concurrent.
C1_CausalityCharacterised ==
    \A a \in 1..Len(events), b \in 1..Len(events) :
        a # b =>
            /\ partial_cmp(events[a].stamp, events[b].stamp) = "Less"
                   <=> HappensBefore(a, b)
            /\ partial_cmp(events[a].stamp, events[b].stamp) = "None"
                   <=> (~HappensBefore(a, b) /\ ~HappensBefore(b, a))

\* C2: for every stamp s with s.id != Empty, event(s) returns a stamp whose
\* event tree e' satisfies leq(s.event, e') and differs from s.event.
C2_EventStrictlyAdvances ==
    (last.op = "event" /\ In(1).id # Empty) =>
        /\ ~IsPanic(Out(1))
        /\ Event_leq(In(1).event, Out(1).event)
        /\ Out(1).event # In(1).event

\* The execution seed, fork into (p, q), p1 = event(p), m = peek(p1),
\* q1 = event(join(q, m)) has happened: event 1 is p's own, event 2 is q's
\* receipt of a message that carries event 1.
CausalChain ==
    /\ Len(events) = 2
    /\ events[1].by = "bump"
    /\ events[1].hist = {1}
    /\ events[1].stamp.id = fork(seed)[1].id
    /\ events[2].by = "receive"
    /\ events[2].hist = {1, 2}
    /\ events[2].stamp.id = fork(seed)[2].id

\* C3: in the causal chain p1 compares strictly less than q1: leq(p1, q1)
\* holds and leq(q1, p1) does not.
C3_CausalChainLess ==
    CausalChain =>
        /\ leq(events[1].stamp, events[2].stamp)
        /\ ~leq(events[2].stamp, events[1].stamp)

RECURSIVE IdNormalForm(_)
\* The normal form of an id tree, collapsed at every depth.
IdNormalForm(i) ==
    IF i.t = "Split"
    THEN Id_norm(Id_Split(IdNormalForm(i.l), IdNormalForm(i.r)))
    ELSE i

\* C4: for every stamp s, fork(s) = (a, b) has a.event = s.event = b.event,
\* and Id::sum(a.id, b.id) succeeds and equals the normal form of s.id.
C4_ForkPartitions ==
    last.op = "fork" =>
        /\ Out(1).event = In(1).event
        /\ Out(2).event = In(1).event
        /\ Id_sum(Out(1).id, Out(2).id) = IdNormalForm(In(1).id)

\* A fork that recursed into the one owned branch of a Split id.
C4_Witness ==
    /\ last.op = "fork"
    /\ In(1).id.t = "Split"
    /\ In(1).id.l = Empty
    /\ In(1).id.r.t = "Split"
    /\ In(1).event.t = "Split"
    /\ Out(1).id # Out(2).id

\* C5 as claimed: join(x, x) returns a stamp equal to x for every stamp x,
\* also when x.id is Full or a Split that owns something.
C5_JoinIdempotentEveryStamp ==
    (last.op = "join" /\ In(1) = In(2)) => Out(1) = In(1)

\* C5 as amended: for every stamp x in normal form the event trees are
\* idempotent under Event::join; join(x, x) returns x when x.id is Empty, and
\* fails in Id::sum when x.id owns anything.
C5_JoinIdempotentAnonymous ==
    (last.op = "join" /\ In(1) = In(2)) =>
        /\ Event_join(In(1).event, In(1).event) = In(1).event
        /\ IF In(1).id = Empty
           THEN Out(1) = In(1)
           ELSE Out(1) = Panic("unreachable: Id::sum")

\* join(x, x) of an anonymous stamp whose event tree has depth 2.
C5_Witness ==
    /\ last.op = "join"
    /\ In(1) = In(2)
    /\ In(1).id = Empty
    /\ In(1).event.t = "Split"
    /\ In(1).event.l.t = "Split"
    /\ Out(1) = In(1)

\* C6: join(x, y) and join(y, x) have equal id trees and equal event trees
\* (and one fails exactly when the other does).
C6_JoinCommutative ==
    (last.op = "join" /\ Len(last.in) = 2) => Out(1) = join(In(2), In(1))

\* A join of two different owning stamps whose event trees are both Splits
\* with different bases.
C6_Witness ==
    /\ last.op = "join"
    /\ Len(last.in) = 2
    /\ ~IsPanic(Out(1))
    /\ In(1).id # Empty
    /\ In(2).id # Empty
    /\ In(1).event.t = "Split"
    /\ In(2).event.t = "Split"
    /\ In(1).event.n < In(2).event.n
    /\ Out(1).event.t = "Split"

\* join(s1, join(s2, s3))
join_right(s1, s2, s3) ==
    LET j == join(s2, s3) IN IF IsPanic(j) THEN j ELSE join(s1, j)

\* C7: join(join(x, y), z) and join(x, join(y, z)) have equal id trees and
\* equal event trees (and one fails exactly when the other does).
C7_JoinAssociative ==
    last.op = "join_join" => Out(1) = join_right(In(1), In(2), In(3))

\* Three different stamps joined, the first with an event tree of depth 2
\* and the other two with Split event trees of different bases.
C7_Witness ==
    /\ last.op = "join_join"
    /\ ~IsPanic(Out(1))
    /\ In(1) # In(2) /\ In(2) # In(3) /\ In(1) # In(3)
    /\ In(1).event.t = "Split"
    /\ In(1).event.l.t = "Split"
    /\ In(2).event.t = "Split"
    /\ In(3).event.t = "Split"
    /\ In(2).event.n # In(3).event.n
    /\ Out(1).event.t = "Split"

\* C8: seed() is (Full, N(0)), and the event tree of event(seed()) satisfies
\* leq(N(0), it) and is not equal to N(0).
C8_SeedMinimality ==
    /\ steps = 0 => clocks = <<Clock(Stamp(Full, N(0)), {})>>
    /\ (last.op = "bump" /\ In(1) = seed) =>
           /\ ~IsPanic(Out(1))
           /\ Event_leq(N(0), Out(1).event)
           /\ Out(1).event # N(0)

\* C9: bump or send on a clock whose id is Empty fails with the precondition
\* error instead of returning a stamp, and leaves the clock's stamp unchanged.
C9_EventOnAnonymousFails ==
    (last.op \in {"bump", "send"} /\ In(1).id = Empty) =>
        /\ Out(1) = Panic("assertion failed: id != Empty")
        /\ clocks[last.at].stamp = In(1)

\* A send that was called on an anonymous clock, which is still what it was.
C9_Witness ==
    /\ last.op = "send"
    /\ In(1).id = Empty
    /\ IsPanic(Out(1))
    /\ clocks[last.at].stamp = In(1)

\* C10: receive on a clock whose id is Empty performs only the join with the
\* incoming stamp and completes without failure; the event step is applied
\* only when the local id was not Empty.
C10_ReceiveAnonymousJoinsOnly ==
    last.op = "receive" =>
        IF In(1).id = Empty
        THEN Out(1) = join(In(1), In(2))
        ELSE Out(1) = join_event(In(1), In(2))

\* C11: send first applies event to the local stamp and then returns peek of
\* the result: the returned clock has id Empty and an event tree equal to the
\* sender's event tree after the send, and the sender's id is the same as
\* before the send.  When event panics, so does send.
C11_SendIsEventThenPeek ==
    last.op = "send" =>
        IF IsPanic(event(In(1)))
        THEN Out(1) = event(In(1))
        ELSE /\ Out(1).self = event(In(1))
             /\ Out(1).ret = peek(Out(1).self)
             /\ Out(1).ret.id = Empty
             /\ Out(1).ret.event = Out(1).self.event
             /\ Out(1).self.id = In(1).id

\* A send by a clock that owns half of the interval, whose event changed its
\* Split event tree.
C11_Witness ==
    /\ last.op = "send"
    /\ ~IsPanic(Out(1))
    /\ In(1).id.t = "Split"
    /\ In(1).event.t = "Split"
    /\ Out(1).self.event # In(1).event
    /\ Out(1).ret = Stamp(Empty, Out(1).self.event)

\* C12: for every stamp s with non-Empty id, with s' = event(s) and
\* m = peek(s'), join(s', m) has an event tree equal to s'.event and an id
\* equal to s'.id.
C12_PeekJoinRoundTrip ==
    (last.op = "event_peek_join" /\ In(1).id # Empty) =>
        /\ ~IsPanic(Out(1))
        /\ Out(1).event = event(In(1)).event
        /\ Out(1).id = event(In(1)).id

\* C13: the comparison of two interval tree clocks depends only on their
\* event trees: it yields Equal iff leq holds both ways, Less iff leq(a, b)
\* only, Greater iff leq(b, a) only, and no ordering iff neither holds; and
\* a == b holds exactly when the comparison yields Equal.
C13_ComparisonByEventTrees ==
    last.op = "compare" =>
        LET ab == Event_leq(In(1).event, In(2).event)
            ba == Event_leq(In(2).event, In(1).event)
        IN  /\ Out(1).ord = "Equal" <=> (ab /\ ba)
            /\ Out(1).ord = "Less" <=> (ab /\ ~ba)
            /\ Out(1).ord = "Greater" <=> (~ab /\ ba)
            /\ Out(1).ord = "None" <=> (~ab /\ ~ba)
            /\ Out(1).eq <=> Out(1).ord = "Equal"
            /\ Out(1).ord = partial_cmp(peek(In(1)), peek(In(2)))

\* Two clocks of different ids with Split event trees, of which the first
\* compares strictly less than the second.
C13_Witness ==
    /\ last.op = "compare"
    /\ In(1).id # In(2).id
    /\ In(1).id # Empty
    /\ In(1).event.t = "Split"
    /\ In(2).event.t = "Split"
    /\ Out(1).ord = "Less"
    /\ ~Out(1).eq

RECURSIVE Owned(_, _)
\* The sub-intervals of [0,1) of width 1/2^d, numbered from 0, that the id
\* tree i owns (d at least the depth of i).
Owned(i, d) ==
    IF i = Empty THEN {}
    ELSE IF i = Full THEN 0..(2^d - 1)
    ELSE Owned(i.l, d - 1) \cup { k + 2^(d - 1) : k \in Owned(i.r, d - 1) }

\* Some sub-interval is owned by both id trees.
Overlap(a, b) ==
    LET d == Max2(IdDepth(a), IdDepth(b))
    IN  Owned(a, d) \cap Owned(b, d) # {}

\* C14: for normal-form ids a and b, Id::sum(a, b) fails (returns no id)
\* exactly when some sub-interval is owned by both a and b, in particular
\* for (Full, Full), (Full, Split) and (Split, Full).
C14_SumFailsOnOverlap ==
    last.op = "Id_sum" =>
        /\ Out(1) = Panic("unreachable: Id::sum") <=> Overlap(In(1).id, In(2).id)
        /\ ~IsPanic(Out(1)) <=> ~Overlap(In(1).id, In(2).id)
        /\ (In(1).id = Full /\ In(2).id # Empty) => IsPanic(Out(1))
        /\ (In(1).id # Empty /\ In(2).id = Full) => IsPanic(Out(1))

\* A sum of two different Split ids that share only a quarter of the
\* interval, which fails.
C14_Witness ==
    /\ last.op = "Id_sum"
    /\ In(1).id.t = "Split"
    /\ In(2).id.t = "Split"
    /\ In(1).id # In(2).id
    /\ Cardinality(Owned(In(1).id, 2) \cap Owned(In(2).id, 2)) = 1
    /\ IsPanic(Out(1))

\* The causal chain with a third branch has happened: event a is p's own,
\* event b is q's receipt of a message that carries a and nothing else, and
\* event c is the own event of a third participant r, which has seen no
\* event of p or q and whose event neither of them has seen.  The three
\* stamps own disjoint parts of the interval: q joined a message, not p.
CausalChainWithThird(a, b, c) ==
    /\ events[a].hist = {a}
    /\ events[b].by = "receive"
    /\ events[b].hist = {a, b}
    /\ events[c].hist = {c}
    /\ ~Overlap(events[a].stamp.id, events[b].stamp.id)
    /\ ~Overlap(events[c].stamp.id, events[a].stamp.id)
    /\ ~Overlap(events[c].stamp.id, events[b].stamp.id)

\* C15: in the causal chain (seed forked into p and q, p1 = event(p),
\* q1 = event(join(q, peek(p1)))), a third stamp r from a further fork that
\* never joins with p or q and has recorded an event of its own compares as
\* concurrent with both p1 and q1: neither leq direction holds.
C15_ThirdBranchConcurrent ==
    \A a \in 1..Len(events), b \in 1..Len(events), c \in 1..Len(events) :
        CausalChainWithThird(a, b, c) =>
            /\ ~leq(events[c].stamp, events[a].stamp)
            /\ ~leq(events[a].stamp, events[c].stamp)
            /\ ~leq(events[c].stamp, events[b].stamp)
            /\ ~leq(events[b].stamp, events[c].stamp)

\* C16: for every Event tree x, trees whose children are not in normal form
\* included, Event::norm(x) returns a tree, and
\* Event::norm(Event::norm(x)) = Event::norm(x).
C16_EventNormTotalIdempotent ==
    last.op = "Event_norm" =>
        /\ ~IsPanic(Out(1))
        /\ Event_norm(Out(1)) = Out(1)

\* C17: for every Id tree x, Id::norm(Id::norm(x)) = Id::norm(x); Id::norm
\* maps Split(Empty, Empty) to Empty, Split(Full, Full) to Full and returns
\* every other tree unchanged.
C17_IdNormIdempotent ==
    last.op = "Id_norm" =>
        /\ Id_norm(Out(1)) = Out(1)
        /\ In(1) = Id_Split(Empty, Empty) => Out(1) = Empty
        /\ In(1) = Id_Split(Full, Full) => Out(1) = Full
        /\ In(1) \notin {Id_Split(Empty, Empty), Id_Split(Full, Full)} => Out(1) = In(1)

\* Id::norm of a Split whose children are Splits of two Empty and of two
\* Full leaves: it comes back unchanged.
C17_Witness ==
    /\ last.op = "Id_norm"
    /\ In(1) = Id_Split(Id_Split(Empty, Empty), Id_Split(Full, Full))
    /\ Out(1) = In(1)

EntrywiseLess(u, v) ==
    /\ \A k \in Procs : VectorClock_get(u, k) <= VectorClock_get(v, k)
    /\ \E j \in Procs : VectorClock_get(u, j) < VectorClock_get(v, j)

\* C19: VectorClock::is_concurrent_with(a, b) returns true exactly when a
\* and b are concurrent, that is when neither a < b nor b < a; hence it is
\* symmetric in its two arguments.
C19_ConcurrentIffNeitherLess ==
    last.op = "is_concurrent_with" =>
        /\ Out(1).concurrent <=> (~EntrywiseLess(In(1), In(2)) /\ ~EntrywiseLess(In(2), In(1)))
        /\ Out(1).concurrent <=> VectorClock_is_concurrent_with(In(2), In(1))

\* C20: with a missing key read as 0, U < V iff U[k] <= V[k] for every key
\* and U[j] < V[j] for some key; U == V, and partial_cmp is Equal, iff all
\* entries are equal; partial_cmp is None iff each clock has an entry
\* strictly greater than the other's; Greater is the mirror of Less.
C20_EntrywiseComparison ==
    last.op = "compare" =>
        LET all_equal == \A k \in Procs :
                             VectorClock_get(In(1), k) = VectorClock_get(In(2), k)
            greater12 == \E k \in Procs :
                             VectorClock_get(In(1), k) > VectorClock_get(In(2), k)
            greater21 == \E k \in Procs :
                             VectorClock_get(In(2), k) > VectorClock_get(In(1), k)
        IN  /\ Out(1).ord = "Less" <=> EntrywiseLess(In(1), In(2))
            /\ VectorClock_happens_before(In(1), In(2)) <=> EntrywiseLess(In(1), In(2))
            /\ Out(1).ord = "Greater" <=> EntrywiseLess(In(2), In(1))
            /\ Out(1).ord = "Equal" <=> all_equal
            /\ Out(1).eq <=> all_equal
            /\ Out(1).ord = "None" <=> (greater12 /\ greater21)

\* Two clocks that compare Less although the first has a key the second
\* has too with a smaller value, and the second has a key the first lacks.
C20_Witness ==
    /\ last.op = "compare"
    /\ Out(1).ord = "Less"
    /\ ~Out(1).eq
    /\ \E k \in DOMAIN In(1).clock \cap DOMAIN In(2).clock : In(1).clock[k] < In(2).clock[k]
    /\ \E k \in DOMAIN In(2).clock : k \notin DOMAIN In(1).clock

\* C21: VectorClock::receive(m) sets every entry k other than the receiver's
\* own key to max(old[k], m[k]) and sets the receiver's own entry to
\* max(old[i], m[i]) + 1; no entry ever decreases.
C21_ReceiveIsMaxThenBump ==
    last.op = "receive" =>
        /\ Out(1).i = In(1).i
        /\ \A k \in Procs :
               /\ k # In(1).i =>
                      VectorClock_get(Out(1), k)
                          = Max2(VectorClock_get(In(1), k), VectorClock_get(In(2), k))
               /\ k = In(1).i =>
                      VectorClock_get(Out(1), k)
                          = Max2(VectorClock_get(In(1), k), VectorClock_get(In(2), k)) + 1
               /\ VectorClock_get(Out(1), k) >= VectorClock_get(In(1), k)

\* A receive in which the receiver is ahead of the message on one key,
\* behind it on another, and behind it on its own key.
C21_Witness ==
    /\ last.op = "receive"
    /\ VectorClock_get(In(2), In(1).i) > VectorClock_get(In(1), In(1).i)
    /\ \E k \in Procs \ {In(1).i} :
           VectorClock_get(In(1), k) > VectorClock_get(In(2), k)
    /\ \E k \in Procs \ {In(1).i} :
           VectorClock_get(In(1), k) < VectorClock_get(In(2), k)
    /\ VectorClock_get(Out(1), In(1).i) = VectorClock_get(In(2), In(1).i) + 1

\* (l, c) of a is lexicographically strictly less than (l, c) of b.
LexLess(a, b) == a.l < b.l \/ (a.l = b.l /\ a.c < b.c)

\* C22: in any execution of bump, send and receive with arbitrary
\* physical-time readings, if event e happens before event f then the (l, c)
\* timestamp of e is lexicographically strictly less than that of f (the
\* counter c not having overflowed); and after receive the local (l, c) is
\* strictly greater than both its previous value and the incoming (l, c).
C22_HLCClockCondition ==
    /\ \A e \in 1..Len(events), f \in 1..Len(events) :
           HappensBefore(e, f) =>
               /\ LexLess(events[e].ts, events[f].ts)
               /\ HybridLogicalClock_partial_cmp(events[e].ts, events[f].ts) = "Less"
    /\ (last.op = "receive" /\ ~IsPanic(Out(1))) =>
           /\ LexLess(In(1), Out(1))
           /\ LexLess(In(2), Out(1))

\* A receive whose reading is behind the clock, of a message whose l equals
\* the local l and whose counter is ahead of the local one.
C22_Witness ==
    /\ last.op = "receive"
    /\ ~IsPanic(Out(1))
    /\ last.at # events[1].at
    /\ In(1).l = In(2).l
    /\ In(1).c < In(2).c
    /\ Out(1).l = In(2).l
    /\ Out(1).c = In(2).c + 1
    /\ HappensBefore(1, Len(events))

\* C23: event is a two-phase dispatch on fill: for every stamp s with a
\* non-Empty id, event(s).event is fill(s) whenever fill(s) differs from
\* s.event, and is the tree that grow(s) returns whenever fill(s) equals
\* s.event.
C23_EventDispatchesOnFill ==
    (last.op = "event" /\ In(1).id # Empty) =>
        LET filled_event == fill(In(1))
            g == grow(In(1))
        IN  /\ filled_event # In(1).event => Out(1) = Stamp(In(1).id, filled_event)
            /\ filled_event = In(1).event =>
                   Out(1) = (IF IsPanic(g) THEN g ELSE Stamp(In(1).id, g.event))

\* C24: event is total on valid stamps: for every stamp whose id is not Empty
\* and whose id and event trees are in normal form, a Full id with a Split
\* event tree included, event returns a stamp and does not fail.
C24_EventTotalOnValidStamps ==
    (last.op = "event" /\ In(1).id # Empty) => ~IsPanic(Out(1))

RECURSIVE EventDepth(_)
EventDepth(e) ==
    IF e.t = "Split" THEN 1 + Max2(EventDepth(e.l), EventDepth(e.r)) ELSE 0

RECURSIVE EventAt(_, _, _)
\* The value of the function that the event tree e encodes on the
\* sub-interval k of [0,1) of width 1/2^d (d at least the depth of e).
EventAt(e, d, k) ==
    IF e.t = "N" THEN e.n
    ELSE IF k < 2^(d - 1) THEN e.n + EventAt(e.l, d - 1, k)
    ELSE e.n + EventAt(e.r, d - 1, k - 2^(d - 1))

RECURSIVE EventNormalForm(_)
\* The event tree is in normal form at every depth.
EventNormalForm(e) ==
    e.t = "Split" =>
        /\ EventNormalForm(e.l)
        /\ EventNormalForm(e.r)
        /\ Min2(Event_min(e.l), Event_min(e.r)) = 0
        /\ ~(e.l.t = "N" /\ e.r.t = "N" /\ e.l.n = e.r.n)

\* C25: Event::join computes the pointwise maximum: for all event trees e1
\* and e2 the function that join(e1, e2) encodes is max(e1(x), e2(x)) at
\* every point x of [0,1), leq(e1, join) and leq(e2, join) hold, and the
\* result is in normal form.
C25_JoinIsPointwiseMax ==
    last.op = "Event_join" =>
        /\ ~IsPanic(Out(1))
        /\ LET d == Max2(EventDepth(Out(1)), Max2(EventDepth(In(1)), EventDepth(In(2))))
           IN  \A k \in 0..(2^d - 1) :
                   EventAt(Out(1), d, k) = Max2(EventAt(In(1), d, k), EventAt(In(2), d, k))
        /\ Event_leq(In(1), Out(1))
        /\ Event_leq(In(2), Out(1))
        /\ EventNormalForm(Out(1))

\* A join of two Split trees, the first outside normal form, neither below
\* the other, whose result is a Split different from both.
C25_Witness ==
    /\ last.op = "Event_join"
    /\ In(1).t = "Split"
    /\ In(2).t = "Split"
    /\ EventDepth(In(1)) = 2
    /\ ~EventNormalForm(In(1))
    /\ In(1).n < In(2).n
    /\ ~IsPanic(Out(1))
    /\ Out(1).t = "Split"
    /\ ~Event_leq(Out(1), In(1))
    /\ ~Event_leq(Out(1), In(2))

\* C26: Event::leq decides the pointwise order: for all event trees e1 and
\* e2 in normal form, leq(e1, e2) is true if and only if e1(x) <= e2(x) at
\* every point x of [0,1).
C26_LeqIsPointwise ==
    (last.op = "Event_leq" /\ EventNormalForm(In(1)) /\ EventNormalForm(In(2))) =>
        LET d == Max2(EventDepth(In(1)), EventDepth(In(2)))
        IN  Out(1).leq <=>
                \A k \in 0..(2^d - 1) : EventAt(In(1), d, k) <= EventAt(In(2), d, k)

\* A comparison of two different normal-form Splits of depth 2 with the same
\* base that agree on the left half and differ on the right: not leq.
C26_Witness ==
    /\ last.op = "Event_leq"
    /\ EventNormalForm(In(1))
    /\ EventNormalForm(In(2))
    /\ EventDepth(In(1)) = 2
    /\ In(2).t = "Split"
    /\ In(1).n = In(2).n
    /\ In(1).l = In(2).l
    /\ ~Out(1).leq

\* The largest depth of the id trees of the live stamps.
LiveIdDepth ==
    LET D == { IdDepth(clocks[i].stamp.id) : i \in 1..Len(clocks) }
    IN  CHOOSE d \in D : \A x \in D : x <= d

C29_EventTouchesOnlyOwned ==
    (last.op = "event" /\ In(1).id # Empty) =>
        /\ ~IsPanic(Out(1))
        /\ Out(1).id = In(1).id
        /\ LET d == Max2(IdDepth(In(1).id),
                         Max2(EventDepth(In(1).event), EventDepth(Out(1).event)))
           IN  \A k \in (0..(2^d - 1)) \ Owned(In(1).id, d) :
                   EventAt(Out(1).event, d, k) = EventAt(In(1).event, d, k)

RECURSIVE Plans(_)
\* The plans that follow the id tree of s, each with the tree it gives and
\* its cost: increment a leaf that is fully owned for 0, expand a leaf into a
\* Split for 1000, descend one level into an owned branch for 1.
Plans(s) ==
    IF s.id = Empty THEN {}
    ELSE IF s.event.t = "N"
    THEN IF s.id = Full THEN { Grown(N(s.event.n + 1), 0) }
         ELSE { Grown(p.event, p.cost + 1000) :
                    p \in Plans(Stamp(s.id, Event_Split(s.event.n, N(0), N(0)))) }
    ELSE IF s.id = Full THEN {}
    ELSE { Grown(Event_Split(s.event.n, p.event, s.event.r), p.cost + 1) :
               p \in Plans(Stamp(s.id.l, s.event.l)) }
         \cup { Grown(Event_Split(s.event.n, s.event.l, p.event), p.cost + 1) :
                    p \in Plans(Stamp(s.id.r, s.event.r)) }

\* The least cost of a plan of s (s has a plan).
MinCost(s) ==
    LET C == { p.cost : p \in Plans(s) } IN CHOOSE c \in C : \A x \in C : c <= x

\* C30: grow returns a minimum-cost plan among the plans that follow the id
\* tree; where both id branches are not Empty and their costs differ it
\* modifies only the branch of strictly lower cost and leaves the event
\* subtree of the other branch unchanged; and it expands no leaf when a plan
\* without expansion exists.
C30_GrowReturnsMinimumCostPlan ==
    (last.op = "grow" /\ Plans(In(1)) # {}) =>
        /\ ~IsPanic(Out(1))
        /\ Out(1) \in Plans(In(1))
        /\ Out(1).cost = MinCost(In(1))
        /\ (\E p \in Plans(In(1)) : p.cost < 1000) => Out(1).cost < 1000
        /\ LET left  == Stamp(In(1).id.l, In(1).event.l)
               right == Stamp(In(1).id.r, In(1).event.r)
           IN  (/\ In(1).event.t = "Split"
                /\ Plans(left) # {}
                /\ Plans(right) # {}) =>
                   /\ MinCost(left) < MinCost(right) =>
                          Out(1).event.r = In(1).event.r
                   /\ MinCost(right) < MinCost(left) =>
                          Out(1).event.l = In(1).event.l

\* C31: Id::sum computes the ownership union: for all disjoint normal-form
\* ids a and b, sum(a, b) owns exactly the points that a or b owns, is in
\* normal form, and sum(Empty, x) = sum(x, Empty) = x.
C31_SumIsOwnershipUnion ==
    (last.op = "Id_sum" /\ ~Overlap(In(1).id, In(2).id)) =>
        /\ ~IsPanic(Out(1))
        /\ LET d == Max2(IdDepth(Out(1)), Max2(IdDepth(In(1).id), IdDepth(In(2).id)))
           IN  Owned(Out(1), d) = Owned(In(1).id, d) \cup Owned(In(2).id, d)
        /\ IdNormalForm(Out(1)) = Out(1)
        /\ In(1).id = Empty => Out(1) = In(2).id
        /\ In(2).id = Empty => Out(1) = In(1).id

\* A sum of two disjoint Split ids of depth 2 that own something on both
\* halves between them, and whose right halves sum to Full: the result is a
\* Split with a Full right branch.
C31_Witness ==
    /\ last.op = "Id_sum"
    /\ ~Overlap(In(1).id, In(2).id)
    /\ IdDepth(In(1).id) = 2
    /\ IdDepth(In(2).id) = 2
    /\ In(1).id.r.t = "Split"
    /\ In(2).id.r.t = "Split"
    /\ ~IsPanic(Out(1))
    /\ Out(1).t = "Split"
    /\ Out(1).r = Full
    /\ Out(1).l \notin {Empty, Full}

RECURSIVE SplitPolicy(_)
\* The stated policy of Id::split, as a pair.
SplitPolicy(i) ==
    CASE i = Empty -> <<Empty, Empty>>
      [] i = Full -> <<Id_Split(Full, Empty), Id_Split(Empty, Full)>>
      [] i.t = "Split" /\ i.l = Empty ->
            <<Id_Split(Empty, SplitPolicy(i.r)[1]), Id_Split(Empty, SplitPolicy(i.r)[2])>>
      [] i.t = "Split" /\ i.l # Empty /\ i.r = Empty ->
            <<Id_Split(SplitPolicy(i.l)[1], Empty), Id_Split(SplitPolicy(i.l)[2], Empty)>>
      [] i.t = "Split" /\ i.l # Empty /\ i.r # Empty ->
            <<Id_Split(i.l, Empty), Id_Split(Empty, i.r)>>

\* C32: Id::split follows the stated policy: split(Empty) = (Empty, Empty);
\* split(Full) = (Split(Full, Empty), Split(Empty, Full));
\* split(Split(Empty, r)) = (Split(Empty, r1), Split(Empty, r2)) with
\* (r1, r2) = split(r), symmetrically when the right child is Empty; and
\* with two non-Empty children the result is (Split(l, Empty), Split(Empty, r)).
C32_SplitFollowsPolicy ==
    last.op = "fork" =>
        /\ <<Out(1).id, Out(2).id>> = SplitPolicy(In(1).id)
        /\ In(1).id = Empty => (Out(1).id = Empty /\ Out(2).id = Empty)
        /\ In(1).id = Full =>
               (Out(1).id = Id_Split(Full, Empty) /\ Out(2).id = Id_Split(Empty, Full))
        /\ (In(1).id.t = "Split" /\ In(1).id.l # Empty /\ In(1).id.r # Empty) =>
               /\ Out(1).id = Id_Split(In(1).id.l, Empty)
               /\ Out(2).id = Id_Split(Empty, In(1).id.r)

\* A split that recursed twice: into the right child of an id whose left
\* child is Empty, and there into the left child, which is Full.
C32_Witness ==
    /\ last.op = "fork"
    /\ In(1).id = Id_Split(Empty, Id_Split(Full, Empty))
    /\ Out(1).id = Id_Split(Empty, Id_Split(Id_Split(Full, Empty), Empty))
    /\ Out(2).id = Id_Split(Empty, Id_Split(Id_Split(Empty, Full), Empty))

\* C33: lift(e, m) raises the function that e encodes by exactly m at every
\* point and sink(e, m) lowers it by exactly m; in every call sink(e, m) that
\* Event::norm makes, m <= min(e) and no base value goes below zero, for
\* every event tree given to norm.
C33_LiftSinkExact ==
    /\ last.op = "Event_lift" =>
           LET d == EventDepth(In(1))
           IN  \A k \in 0..(2^d - 1) :
                   EventAt(Out(1), d, k) = EventAt(In(1), d, k) + In(2).m
    /\ (/\ last.op = "Event_norm"
        /\ In(1).t = "Split"
        /\ ~(In(1).l.t = "N" /\ In(1).r.t = "N" /\ In(1).l.n = In(1).r.n)) =>
           LET m == Min2(Event_min(In(1).l), Event_min(In(1).r))
           IN  \A e \in {In(1).l, In(1).r} :
                   /\ m <= Event_min(e)
                   /\ ~IsPanic(Event_sink(e, m))
                   /\ LET d == EventDepth(e)
                      IN  \A k \in 0..(2^d - 1) :
                              EventAt(Event_sink(e, m), d, k) = EventAt(e, d, k) - m

\* The last call is an operation of a hybrid logical clock that has returned.
HLCReturned ==
    last.op \in {"bump", "send", "receive"} /\ ~IsPanic(Out(1))

\* The physical time that the last call read.
HLCReading == last.in[Len(last.in)].secs

\* C34 as claimed: across any sequence of bump, send and receive the field l
\* never decreases and after each operation l is at least the physical time
\* read during it; c is reset to 0 exactly when the physical time read is
\* strictly greater than the previous l (and, on receive, than the incoming
\* l), and is otherwise incremented: it is the previous c plus one.
C34_CounterResetOrIncremented ==
    HLCReturned =>
        LET resets == /\ HLCReading > In(1).l
                      /\ last.op = "receive" => HLCReading > In(2).l
        IN  /\ Out(1).l >= In(1).l
            /\ Out(1).l >= HLCReading
            /\ Out(1).c = 0 <=> resets
            /\ ~resets => Out(1).c = In(1).c + 1

\* C34 as amended: l never decreases and is at least the physical time
\* read; c is reset to 0 exactly when the physical time read is strictly
\* greater than the previous l (and, on receive, than the incoming l);
\* otherwise bump and send add one to c, and receive sets c to one more than
\* the largest counter among the previous and the incoming clock whose l
\* equals the new l.
C34_CounterResetOrSucceeds ==
    HLCReturned =>
        LET resets == /\ HLCReading > In(1).l
                      /\ last.op = "receive" => HLCReading > In(2).l
            seen   == IF last.op = "receive" THEN {In(1), In(2)} ELSE {In(1)}
            carry  == { x.c : x \in { y \in seen : y.l = Out(1).l } }
        IN  /\ Out(1).l >= In(1).l
            /\ Out(1).l >= HLCReading
            /\ \A x \in seen : Out(1).l >= x.l
            /\ Out(1).c = 0 <=> resets
            /\ ~resets =>
                   /\ carry # {}
                   /\ \E c \in carry :
                          /\ \A x \in carry : x <= c
                          /\ Out(1).c = c + 1
            /\ (~resets /\ last.op # "receive") => Out(1).c = In(1).c + 1

\* A receive that does not reset the counter and whose result is not the
\* previous counter plus one: the incoming clock has the same l and a larger
\* counter.
C34_Witness ==
    /\ last.op = "receive"
    /\ ~IsPanic(Out(1))
    /\ HLCReading <= In(1).l
    /\ In(2).l = In(1).l
    /\ In(2).c > In(1).c
    /\ Out(1).c = In(2).c + 1
    /\ Out(1).c # In(1).c + 1

=============================================================================
